---- MODULE Spec2Model ----
(***************************************************************************)
(* LetList (src/relay/pass/let_list.h): a builder that records let         *)
(* bindings (Push) and wraps a body in the recorded bindings (Get), plus   *)
(* the scoped helper With that creates a builder, runs a caller-supplied   *)
(* function against it and calls Get on what the function returns.         *)
(*                                                                         *)
(* A failing CHECK is modelled as the dmlc::Error it throws: the call      *)
(* returns nothing and the object keeps the state it had.                  *)
(*                                                                         *)
(* The class declares no copy or move operation, so it has the implicit    *)
(* ones: a LetList can be copied, and assigned to, closed or not.          *)
(***************************************************************************)
EXTENDS Integers, Sequences, FiniteSets

\* Total number of successful Push calls and assignments in a run.
MaxPush == 3

(***************************************************************************)
(* Terms of the expression language the builder consumes.  Every term is   *)
(* a tagged tuple; the three node kinds have different lengths.            *)
(***************************************************************************)
NoType == "none"
NoExpr == <<"null">>
NoVar == NoExpr

\* VarNode::make(name_hint, type_annotation): a new variable.  Its name is
\* built on name_hint and is unique: id is the part of the name that no
\* other variable has.
VarNode_make(name_hint, type_annotation, id) ==
  <<"var", [name |-> <<name_hint, id>>, type_annotation |-> type_annotation]>>

\* CallNode::make(op, {lhs, rhs})
CallNode_make(op, lhs, rhs) == <<"call", op, <<lhs, rhs>>>>

\* LetNode::make(var, value, body)
LetNode_make(var, value, body) == <<"let", var, value, body, "in">>

IsCall(e) == e[1] = "call"
IsLet(e) == e[1] = "let"

Plus(lhs, rhs) == CallNode_make("plus", lhs, rhs)

\* Variables that exist before any builder is used: the free variable a of
\* the documented example and one variable v the caller made for itself.
VarA == VarNode_make("a", NoType, 0)
VarV == VarNode_make("v", NoType, 1)
CallerVars == {VarA, VarV}

(***************************************************************************)
(* The class.  A LetList value is the pair of its two private members.     *)
(***************************************************************************)
\* lets_ empty, used_ = false
NewLetList == [lets_ |-> <<>>, used_ |-> FALSE]

Thrown(ll) == [ok |-> FALSE, ll |-> ll, ret |-> NoExpr]

\* A plausible slip: the binding is inserted at the front.
PushFront(ll, pv, expr) ==
  IF ll.used_ THEN Thrown(ll)
  ELSE [ok |-> TRUE, ll |-> [ll EXCEPT !.lets_ = <<<<pv, expr>>>> \o @], ret |-> pv]

\* A plausible slip: the CHECK is missing.
PushUnchecked(ll, pv, expr) ==
  [ok |-> TRUE, ll |-> [ll EXCEPT !.lets_ = Append(@, <<pv, expr>>)], ret |-> pv]

\* A plausible slip: a variable that is already bound is rejected.
PushRejectsBound(ll, pv, expr) ==
  IF ll.used_ \/ (\E k \in DOMAIN ll.lets_ : ll.lets_[k][1] = pv) THEN Thrown(ll)
  ELSE [ok |-> TRUE, ll |-> [ll EXCEPT !.lets_ = Append(@, <<pv, expr>>)], ret |-> pv]

\* Var Push(Var pv, Expr expr)
Push(ll, pv, expr) ==
  IF ll.used_ THEN Thrown(ll)
  ELSE [ok |-> TRUE, ll |-> [ll EXCEPT !.lets_ = Append(@, <<pv, expr>>)], ret |-> pv]

\* A plausible slip: one shared placeholder variable instead of a new one.
PushTyShared(ll, ty, expr, id) == Push(ll, VarNode_make("x", ty, 0 - 1), expr)

\* Var Push(Type ty, Expr expr); id is what makes the name of the variable
\* VarNode::make returns unique.
PushTy(ll, ty, expr, id) == Push(ll, VarNode_make("x", ty, id), expr)

\* A plausible slip: the untyped overload passes a type of its own.
PushExprTyped(ll, expr, id) == PushTy(ll, "IncompleteType", expr, id)

\* Var Push(Expr expr)
PushExpr(ll, expr, id) == PushTy(ll, NoType, expr, id)

\* A plausible slip: a forward iterator, so the last binding ends up outermost.
RECURSIVE GetLoopForward(_, _, _)
GetLoopForward(lets, i, ret) ==
  IF i = 0 THEN ret
  ELSE GetLoopForward(lets, i - 1,
                      LetNode_make(lets[Len(lets) + 1 - i][1], lets[Len(lets) + 1 - i][2], ret))

\* A plausible slip: the reverse loop stops one element early.
RECURSIVE GetLoopShort(_, _, _)
GetLoopShort(lets, i, ret) ==
  IF i <= 1 THEN ret
  ELSE GetLoopShort(lets, i - 1, LetNode_make(lets[i][1], lets[i][2], ret))

\* The loop of Get: rit walks lets_ from its last element (i = Len) to its
\* first (i = 1).
RECURSIVE GetLoop(_, _, _)
GetLoop(lets, i, ret) ==
  IF i = 0 THEN ret
  ELSE GetLoop(lets, i - 1, LetNode_make(lets[i][1], lets[i][2], ret))

\* A plausible slip: ret starts as a null Expr instead of body.
GetFromNull(ll, body) ==
  IF ll.used_ THEN Thrown(ll)
  ELSE [ok |-> TRUE,
        ll |-> [ll EXCEPT !.used_ = TRUE],
        ret |-> GetLoop(ll.lets_, Len(ll.lets_), NoExpr)]

\* A plausible slip: the CHECK is missing.
GetUnchecked(ll, body) ==
  [ok |-> TRUE,
   ll |-> [ll EXCEPT !.used_ = TRUE],
   ret |-> GetLoop(ll.lets_, Len(ll.lets_), body)]

\* A plausible slip: the bindings are moved out of lets_.
GetDrains(ll, body) ==
  IF ll.used_ THEN Thrown(ll)
  ELSE [ok |-> TRUE,
        ll |-> [lets_ |-> <<>>, used_ |-> TRUE],
        ret |-> GetLoop(ll.lets_, Len(ll.lets_), body)]

\* A plausible slip: used_ is never set.
GetNoClose(ll, body) ==
  IF ll.used_ THEN Thrown(ll)
  ELSE [ok |-> TRUE, ll |-> ll, ret |-> GetLoop(ll.lets_, Len(ll.lets_), body)]

\* Expr Get(const Expr& body)
Get(ll, body) ==
  IF ll.used_ THEN Thrown(ll)
  ELSE [ok |-> TRUE,
        ll |-> [ll EXCEPT !.used_ = TRUE],
        ret |-> GetLoop(ll.lets_, Len(ll.lets_), body)]

\* A plausible slip: With returns what f returned, unwrapped.
WithGetUnwrapped(ll, body) == [Get(ll, body) EXCEPT !.ret = body]

\* A plausible slip: With never calls Get.
WithNoGet(ll, body) == [ok |-> TRUE, ll |-> ll, ret |-> body]

\* The tail of With: ll.Get(f(&ll)) once f has returned body.
WithGet(ll, body) == Get(ll, body)

\* A plausible slip: With catches f's failure and finalizes all the same.
WithUnwindGet(ll) == Get(ll, NoExpr)

\* With when f(&ll) throws: the exception passes through With, whose Get is
\* never evaluated.
WithUnwind(ll) == Thrown(ll)

\* A plausible slip: lets_ and used_ declared static, one copy for all objects.
StoreStatic(objs, b, ll) == [c \in DOMAIN objs |-> ll]

\* lets_ and used_ are non-static members: a call on object b writes b's own
\* copy.
Store(objs, b, ll) == [objs EXCEPT ![b] = ll]

\* LetList(const LetList&) and operator=(const LetList&): the class declares
\* neither, so the compiler declares both, public and memberwise: the new
\* value has the lets_ and the used_ of the source.
CopyOf(src) == [lets_ |-> src.lets_, used_ |-> src.used_]

\* What LetList(LetList&&) and operator=(LetList&&), implicitly declared as
\* well, leave in the source: the vector gave its elements away and is
\* empty, the bool was copied.
MovedFrom(src) == [lets_ |-> <<>>, used_ |-> src.used_]

(***************************************************************************)
(* State.                                                                  *)
(***************************************************************************)
\* The local ll of the running With call, and a LetList the client
\* constructed itself.
WithLL == "ll"
Client == "client"
Builders == {WithLL, Client}

VARIABLES
  obj,      \* obj[b]: the LetList object b (its lets_ and used_)
  hist,     \* hist[b]: the Push calls that made the bindings b holds, in call
            \* order: whether the overload was an anonymous one, the variable
            \* handed back and the expression pushed.  They are the calls on b
            \* that returned since b was constructed or last assigned to, after
            \* those b received with the value assigned to it
  closes,   \* closes[b]: number of Get calls that returned on the builder b
            \* holds: on b since it was constructed or last assigned to, or on
            \* the builder whose value b was given
  intact,   \* intact[b]: lets_ and used_ of b were written only by b's
            \* construction and by Push and Get on b, never by an assignment
  nextId,   \* the unique part of the name of the next variable VarNode::make
            \* returns; the variable made for a Push that throws dies in the
            \* unwinding and frees it
  npush,    \* successful Push calls and assignments so far
  wpc,      \* "idle", or "in_f" while With runs the caller's function
  last      \* the most recent call: its arguments, the object before, its outcome

vars == <<obj, hist, closes, intact, nextId, npush, wpc, last>>

\* The record of a call.  Of a call that threw, only the operation, the object
\* and the failure are kept: it had no other effect.
Call(op, b, var, ty, expr, pre, r) ==
  IF r.ok
  THEN [op |-> op, b |-> b, var |-> var, ty |-> ty, expr |-> expr,
        pre |-> pre, ok |-> TRUE, ret |-> r.ret]
  ELSE [op |-> op, b |-> b, var |-> NoVar, ty |-> NoType, expr |-> NoExpr,
        pre |-> pre, ok |-> FALSE, ret |-> r.ret]

Init ==
  /\ obj = [b \in Builders |-> NewLetList]
  /\ hist = [b \in Builders |-> <<>>]
  /\ closes = [b \in Builders |-> 0]
  /\ intact = [b \in Builders |-> TRUE]
  /\ nextId = Cardinality(CallerVars)
  /\ npush = 0
  /\ wpc = "idle"
  /\ last = Call("new", Client, NoVar, NoType, NoExpr, NewLetList, [ok |-> TRUE, ret |-> NoExpr])

\* The builder the running code uses: while With runs f, control is inside
\* f and f works on the builder it was handed (which it may overwrite with the
\* client's, copied or moved); otherwise the client works on its own builder.
Live(b) == IF wpc = "in_f" THEN b = WithLL ELSE b # WithLL

\* The variable most recently handed back by a Push on b (a if none yet).
Prev(b) == IF hist[b] = <<>> THEN VarA ELSE hist[b][Len(hist[b])].ret

\* Push and Get on a used builder throw at their first statement, before
\* they read an argument: for such a call one argument stands for all of S.
ArgsFor(b, S) == IF obj[b].used_ THEN {CHOOSE x \in S : TRUE} ELSE S

\* Expressions a caller passes to Push or Get on b: the caller's variable v
\* (which the caller may also bind on b, before or after) and the sum of the
\* variable it was last handed.
ExprInputs(b) == ArgsFor(b, {VarV, Plus(Prev(b), Prev(b))})
\* Variables a caller passes to the explicit overload.
VarInputs(b) == ArgsFor(b, {VarV, Prev(b)} \ {VarA})
TypeInputs(b) == ArgsFor(b, {NoType, "TensorType"})

\* Bookkeeping shared by the three overloads.
Pushed(op, b, var, ty, expr, r) ==
  /\ r.ok => npush < MaxPush
  /\ obj' = Store(obj, b, r.ll)
  /\ hist' = IF r.ok
             THEN [hist EXCEPT ![b] = Append(@, [anon |-> op # "PushVar", ret |-> r.ret, expr |-> expr])]
             ELSE hist
  /\ npush' = IF r.ok THEN npush + 1 ELSE npush
  /\ last' = Call(op, b, var, ty, expr, obj[b], r)
  /\ UNCHANGED <<closes, intact, wpc>>

PushVarCall(b) ==
  \E pv \in VarInputs(b), expr \in ExprInputs(b) :
       /\ Pushed("PushVar", b, pv, NoType, expr, Push(obj[b], pv, expr))
       /\ UNCHANGED nextId

PushTyCall(b) ==
  \E ty \in TypeInputs(b), expr \in ExprInputs(b) :
       LET r == PushTy(obj[b], ty, expr, nextId) IN
       /\ Pushed("PushTy", b, NoVar, ty, expr, r)
       /\ nextId' = IF r.ok THEN nextId + 1 ELSE nextId

PushExprCall(b) ==
  \E expr \in ExprInputs(b) :
       LET r == PushExpr(obj[b], expr, nextId) IN
       /\ Pushed("PushExpr", b, NoVar, NoType, expr, r)
       /\ nextId' = IF r.ok THEN nextId + 1 ELSE nextId

GetCall(b) ==
  \E body \in ExprInputs(b) :
       LET r == Get(obj[b], body) IN
       /\ obj' = Store(obj, b, r.ll)
       /\ closes' = IF r.ok THEN [closes EXCEPT ![b] = @ + 1] ELSE closes
       /\ last' = Call("Get", b, NoVar, NoType, body, obj[b], r)
       /\ UNCHANGED <<hist, intact, nextId, npush, wpc>>

\* b = LetList(): a temporary, new and empty, is move-assigned to b.
AssignNewCall(b) ==
  /\ npush < MaxPush
  /\ obj' = Store(obj, b, CopyOf(NewLetList))
  /\ hist' = [hist EXCEPT ![b] = <<>>]
  /\ intact' = [intact EXCEPT ![b] = FALSE]
  /\ last' = Call("AssignNew", b, NoVar, NoType, NoExpr, obj[b], [ok |-> TRUE, ret |-> NoExpr])
  /\ npush' = npush + 1
  /\ closes' = [closes EXCEPT ![b] = 0]
  /\ UNCHANGED <<nextId, wpc>>

\* dst = src, copy assignment; also LetList dst = src, copy construction,
\* when dst is an object that has not been used before.  In b = b the vector
\* is assigned to itself, which leaves it as it is.
AssignCopyCall(dst, src) ==
  /\ npush < MaxPush
  /\ obj' = Store(obj, dst, CopyOf(obj[src]))
  /\ hist' = [hist EXCEPT ![dst] = hist[src]]
  /\ intact' = [intact EXCEPT ![dst] = FALSE]
  /\ last' = Call("AssignCopy", dst, NoVar, NoType, NoExpr, obj[dst], [ok |-> TRUE, ret |-> NoExpr])
  /\ npush' = npush + 1
  /\ closes' = [closes EXCEPT ![dst] = closes[src]]
  /\ UNCHANGED <<nextId, wpc>>

\* dst = std::move(src), move assignment; also LetList dst = std::move(src).
\* In b = std::move(b) the object is its own source: what the vector's move
\* assignment leaves in a source, an empty lets_, is what b ends with.
AssignMoveCall(dst, src) ==
  /\ npush < MaxPush
  /\ obj' = Store(Store(obj, dst, CopyOf(obj[src])), src, MovedFrom(obj[src]))
  /\ hist' = [hist EXCEPT ![dst] = hist[src], ![src] = <<>>]
  /\ intact' = [b \in Builders |-> intact[b] /\ b \notin {dst, src}]
  /\ last' = Call("AssignMove", dst, NoVar, NoType, NoExpr, obj[dst], [ok |-> TRUE, ret |-> NoExpr])
  /\ npush' = npush + 1
  /\ closes' = [closes EXCEPT ![dst] = closes[src]]
  /\ UNCHANGED <<nextId, wpc>>

\* With, up to the call of f: LetList ll; f(&ll) begins.
WithEnter ==
  /\ wpc = "idle"
  /\ npush < MaxPush
  /\ wpc' = "in_f"
  /\ obj' = Store(obj, WithLL, NewLetList)
  /\ hist' = [hist EXCEPT ![WithLL] = <<>>]
  /\ closes' = [closes EXCEPT ![WithLL] = 0]
  /\ intact' = [intact EXCEPT ![WithLL] = TRUE]
  /\ last' = Call("With", WithLL, NoVar, NoType, NoExpr, NewLetList, [ok |-> TRUE, ret |-> NoExpr])
  /\ UNCHANGED <<nextId, npush>>

\* With, from the return of f: return ll.Get(body).  A failing Get leaves
\* With by the exception.
WithReturn ==
  /\ wpc = "in_f"
  /\ \E body \in ExprInputs(WithLL) :
       LET r == WithGet(obj[WithLL], body) IN
       /\ obj' = Store(obj, WithLL, r.ll)
       /\ closes' = IF r.ok THEN [closes EXCEPT ![WithLL] = @ + 1] ELSE closes
       /\ last' = Call("WithReturn", WithLL, NoVar, NoType, body, obj[WithLL], r)
  /\ wpc' = "idle"
  /\ UNCHANGED <<hist, intact, nextId, npush>>

\* f fails: the exception leaves With, which never reaches its Get.
WithThrow ==
  /\ wpc = "in_f"
  /\ wpc' = "idle"
  /\ LET r == WithUnwind(obj[WithLL]) IN
       /\ obj' = Store(obj, WithLL, r.ll)
       /\ closes' = IF r.ok THEN [closes EXCEPT ![WithLL] = @ + 1] ELSE closes
       /\ last' = Call("WithThrow", WithLL, NoVar, NoType, NoExpr, obj[WithLL], r)
  /\ UNCHANGED <<hist, intact, nextId, npush>>

Next ==
  \/ \E b \in Builders : Live(b) /\ PushVarCall(b)
  \/ \E b \in Builders : Live(b) /\ PushTyCall(b)
  \/ \E b \in Builders : Live(b) /\ PushExprCall(b)
  \/ \E b \in Builders : Live(b) /\ GetCall(b)
  \/ \E b \in Builders : Live(b) /\ AssignNewCall(b)
  \/ \E b \in Builders : Live(b) /\ \E src \in {b, Client} : AssignCopyCall(b, src)
  \/ \E b \in Builders : Live(b) /\ \E src \in {b, Client} : AssignMoveCall(b, src)
  \/ WithEnter
  \/ WithReturn
  \/ WithThrow

Spec == Init /\ [][Next]_vars

\* Two LetLists the client constructed itself and uses in any order, without
\* With: the second one takes the place of With's local.  Of the two, the one
\* used first is the one named client.
Begun(b) == b = Client \/ last.op # "new"

NextPair ==
  \/ \E b \in Builders : Begun(b) /\ PushVarCall(b)
  \/ \E b \in Builders : Begun(b) /\ PushTyCall(b)
  \/ \E b \in Builders : Begun(b) /\ PushExprCall(b)
  \/ \E b \in Builders : Begun(b) /\ GetCall(b)
  \/ \E b \in Builders : Begun(b) /\ AssignNewCall(b)
  \/ \E dst, src \in Builders : Begun(dst) /\ AssignCopyCall(dst, src)
  \/ \E dst, src \in Builders : Begun(dst) /\ AssignMoveCall(dst, src)

SpecPair == Init /\ [][NextPair]_vars

(***************************************************************************)
(* Properties.                                                             *)
(***************************************************************************)
PushOps == {"PushVar", "PushTy", "PushExpr"}

\* The last call was a Get, direct or by With, that returned an expression.
Finalized == last.op \in {"Get", "WithReturn"} /\ last.ok

\* What is left of e below its k outermost lets (null if there are fewer).
RECURSIVE Cont(_, _)
Cont(e, k) ==
  IF k = 0 THEN e
  ELSE IF IsLet(e) THEN Cont(e[4], k - 1) ELSE NoExpr

RECURSIVE NumLets(_)
NumLets(e) ==
  IF IsLet(e) THEN 1 + NumLets(e[3]) + NumLets(e[4])
  ELSE IF IsCall(e) THEN NumLets(e[3][1]) + NumLets(e[3][2])
  ELSE 0

RECURSIVE NumCalls(_)
NumCalls(e) ==
  IF IsLet(e) THEN NumCalls(e[3]) + NumCalls(e[4])
  ELSE IF IsCall(e) THEN 1 + NumCalls(e[3][1]) + NumCalls(e[3][2])
  ELSE 0

\* References to variable v in e (a let's binder is not a reference).
RECURSIVE Occ(_, _)
Occ(e, v) ==
  IF IsLet(e) THEN Occ(e[3], v) + Occ(e[4], v)
  ELSE IF IsCall(e) THEN Occ(e[3][1], v) + Occ(e[3][2], v)
  ELSE IF e = v THEN 1 ELSE 0

\* e with the free references to v replaced by val.
RECURSIVE Subst(_, _, _)
Subst(e, v, val) ==
  IF IsLet(e)
  THEN LetNode_make(e[2], Subst(e[3], v, val),
                    IF e[2] = v THEN e[4] ELSE Subst(e[4], v, val))
  ELSE IF IsCall(e)
  THEN CallNode_make(e[2], Subst(e[3][1], v, val), Subst(e[3][2], v, val))
  ELSE IF e = v THEN val ELSE e

\* Each let of the chain replaced by its continuation with the bound value
\* put in place of the bound variable, outermost let first.
RECURSIVE Inline(_)
Inline(e) == IF IsLet(e) THEN Inline(Subst(e[4], e[2], e[3])) ELSE e

\* What the caller would have built without a LetList: body with every
\* handed-back variable replaced by the expression pushed for it, the last
\* push first.
RECURSIVE Unshared(_, _, _)
Unshared(h, k, e) ==
  IF k = 0 THEN e ELSE Unshared(h, k - 1, Subst(e, h[k].ret, h[k].expr))

\* a + a + ... + a with n terms, n a power of two, as a balanced tree.
RECURSIVE SumOfA(_)
SumOfA(n) == IF n = 1 THEN VarA ELSE Plus(SumOfA(n \div 2), SumOfA(n \div 2))

RECURSIVE SumCalls(_, _)
SumCalls(h, k) == IF k = 0 THEN 0 ELSE NumCalls(h[k].expr) + SumCalls(h, k - 1)

\* C1: after N pushes (any overloads) on a fresh builder, Get(body) returns a
\* chain of N nested lets whose K-th outermost let binds the K-th pushed
\* variable to the K-th pushed expression, and whose innermost continuation
\* is body.
C1_LetChainInPushOrder ==
  Finalized =>
    LET h == hist[last.b]
        N == Len(h)
    IN /\ \A k \in 1..N :
            LET c == Cont(last.ret, k - 1)
            IN IsLet(c) /\ c[2] = h[k].ret /\ c[3] = h[k].expr
       /\ Cont(last.ret, N) = last.expr

C1_Witness ==
  /\ Finalized
  /\ intact[last.b]
  /\ Len(hist[last.b]) = 3
  /\ ~hist[last.b][1].anon
  /\ hist[last.b][2].anon /\ hist[last.b][2].ret[2].type_annotation # NoType
  /\ hist[last.b][3].anon /\ hist[last.b][3].ret[2].type_annotation = NoType

\* C2: a Push of any overload on a builder on which Get has returned throws:
\* no variable comes back and lets_ is what it was.
C2_PushAfterGetFails ==
  (last.op \in PushOps /\ closes[last.b] >= 1) =>
    /\ ~last.ok
    /\ last.ret = NoVar
    /\ obj[last.b].lets_ = last.pre.lets_
    /\ Len(hist[last.b]) = Len(last.pre.lets_)

C2_Witness ==
  /\ last.op = "PushExpr"
  /\ last.b = Client
  /\ intact[Client]
  /\ closes[Client] = 1
  /\ ~last.ok
  /\ Len(obj[Client].lets_) = 2

\* C3: a Get on a builder on which no Get has returned yet returns and sets
\* used_; every Get after that throws and returns no expression.
C3_GetOnceThenFail ==
  last.op = "Get" =>
    LET before == closes[last.b] - (IF last.ok THEN 1 ELSE 0)
    IN IF before = 0
       THEN last.ok /\ obj[last.b].used_ /\ ~last.pre.used_
       ELSE ~last.ok /\ last.ret = NoExpr

C3_Witness ==
  /\ last.op = "Get"
  /\ ~last.ok
  /\ intact[last.b]
  /\ closes[last.b] = 1
  /\ Len(obj[last.b].lets_) = 2

\* C4: from the moment Get has returned on a builder, used_ is set, and every
\* Push and Get attempted on it afterwards (the Get of With included) throws
\* and leaves used_ and lets_ as they were, so that no second Get returns on
\* it.
C4_ClosedIsTerminal ==
  /\ [](\A b \in Builders : closes[b] >= 1 => (obj[b].used_ /\ closes[b] = 1))
  /\ [][\A b \in Builders :
          (closes[b] >= 1 /\ last'.op \in PushOps \cup {"Get", "WithReturn", "WithThrow"})
            => /\ obj'[b] = obj[b]
               /\ closes'[b] = closes[b]
               /\ last'.b = b => ~last'.ok]_vars

C4_Witness ==
  /\ last.op \in PushOps
  /\ ~last.ok
  /\ last.b = WithLL
  /\ intact[WithLL]
  /\ closes[WithLL] = 1
  /\ Len(obj[WithLL].lets_) >= 1

\* C5 as stated: the variable of an anonymous Push differs from the variable
\* handed back by every other Push on the same builder.
C5_AnonDistinctFromAllPushes ==
  \A b \in Builders : \A i, j \in DOMAIN hist[b] :
    (i # j /\ hist[b][i].anon) => hist[b][i].ret # hist[b][j].ret

\* C5 amended: the variable of an anonymous Push differs from the variable
\* handed back by every earlier Push and by every other anonymous Push on
\* the same builder.
C5_AnonDistinctFromEarlierAndAnon ==
  \A b \in Builders : \A i, j \in DOMAIN hist[b] :
    (i # j /\ hist[b][i].anon /\ (j < i \/ hist[b][j].anon))
      => hist[b][i].ret # hist[b][j].ret

C5_Witness ==
  /\ Len(hist[Client]) = 3
  /\ ~hist[Client][1].anon
  /\ hist[Client][2].anon
  /\ hist[Client][3].anon
  /\ last.op = "PushExpr"

\* C6: Get(body) on a builder nothing was pushed on returns body itself.
C6_EmptyGetReturnsBody ==
  (Finalized /\ hist[last.b] = <<>>) => last.ret = last.expr

C6_Witness ==
  /\ last.op = "Get"
  /\ intact[last.b]
  /\ last.ok
  /\ hist[last.b] = <<>>
  /\ IsCall(last.expr)

\* C7: Push(v, e) on an open builder returns v, leaves the builder open and
\* makes lets_ the old lets_ with (v, e) appended.
C7_PushAppends ==
  (last.op = "PushVar" /\ ~last.pre.used_) =>
    /\ last.ok
    /\ last.ret = last.var
    /\ obj[last.b].lets_ = Append(last.pre.lets_, <<last.var, last.expr>>)
    /\ ~obj[last.b].used_

C7_Witness ==
  /\ last.op = "PushVar"
  /\ last.ok
  /\ Len(last.pre.lets_) = 2
  /\ last.pre.lets_[1][1] # last.pre.lets_[2][1]

\* The explicit use of a builder: a new LetList, the pushes of h on it in
\* order, then Get(body).
RECURSIVE ReplayPush(_, _, _)
ReplayPush(ll, h, k) ==
  IF k > Len(h) THEN ll ELSE ReplayPush(Push(ll, h[k].ret, h[k].expr).ll, h, k + 1)

ExplicitUse(h, body) == Get(ReplayPush(NewLetList, h, 1), body)

\* C8: when f only pushes on the builder it is handed (it neither calls Get
\* on it nor assigns to it) and returns body,
\* With(f) returns what Get(body) returns on a new builder that received
\* f's pushes (the variables f was handed back, with their expressions) in
\* order: nothing of another builder or of an earlier With is in it.
C8_WithEqualsExplicitUse ==
  (last.op = "WithReturn" /\ last.ok /\ intact[WithLL]) =>
    /\ closes[WithLL] = 1
    /\ ExplicitUse(hist[WithLL], last.expr).ok
    /\ last.ret = ExplicitUse(hist[WithLL], last.expr).ret
    /\ NumLets(last.ret) = Len(hist[WithLL])

C8_Witness ==
  /\ last.op = "WithReturn"
  /\ last.ok
  /\ intact[WithLL]
  /\ Len(hist[WithLL]) >= 1
  /\ Len(hist[Client]) >= 1
  /\ npush > Len(hist[WithLL]) + Len(hist[Client])

\* C9 as stated: every use of With closes its builder exactly once.
C9_WithClosesExactlyOnce ==
  last.op \in {"WithReturn", "WithThrow"} => closes[WithLL] = 1

\* C9 amended: With itself closes its builder at most once.  When f returns,
\* With's Get closes the builder if f left it open and throws if f left it
\* closed, so the builder ends closed; when f fails With closes nothing and
\* the builder stays as f left it.  When f used the builder through Push and
\* Get only, the builder is thus closed at most once during the whole use,
\* and exactly once if f returns.
C9_WithClosesOpenBuilderOnReturn ==
  /\ last.op = "WithReturn" =>
       /\ last.ok <=> ~last.pre.used_
       /\ obj[WithLL] = [last.pre EXCEPT !.used_ = TRUE]
       /\ intact[WithLL] => closes[WithLL] = 1
  /\ last.op = "WithThrow" =>
       /\ obj[WithLL] = last.pre
       /\ intact[WithLL] => closes[WithLL] = (IF last.pre.used_ THEN 1 ELSE 0)

C9_Witness ==
  /\ last.op = "WithReturn"
  /\ ~last.ok
  /\ intact[WithLL]
  /\ closes[WithLL] = 1
  /\ Len(hist[WithLL]) >= 1

\* The pushes and body of the documented example: a + a, then twice the sum
\* of the variable just handed back, and a body that sums the last variable.
IsDocExample(h, body) ==
  /\ Len(h) = 3
  /\ \A k \in 1..3 : h[k].anon /\ h[k].ret[2].type_annotation = NoType
  /\ h[1].expr = Plus(VarA, VarA)
  /\ \A k \in 2..3 : h[k].expr = Plus(h[k - 1].ret, h[k - 1].ret)
  /\ body = Plus(h[3].ret, h[3].ret)

\* C10: the expression Get or With returns holds one let per push and no call
\* node beyond those of the pushed expressions and of body (nothing is
\* copied); replacing bound variables by their values from the outermost
\* let inward gives the expression the caller would have built without the
\* builder.  For the documented example: 3 lets, 4 additions, 2 references
\* to a, and the 16-fold sum of a once inlined.
C10_SharingNotDuplication ==
  Finalized =>
    LET h == hist[last.b]
        r == last.ret
    IN /\ NumLets(r) = Len(h)
       /\ NumCalls(r) = SumCalls(h, Len(h)) + NumCalls(last.expr)
       /\ Inline(r) = Unshared(h, Len(h), last.expr)
       /\ NumLets(Inline(r)) = 0
       /\ IsDocExample(h, last.expr) =>
            /\ NumLets(r) = 3
            /\ NumCalls(r) = 4
            /\ Occ(r, VarA) = 2
            /\ Inline(r) = SumOfA(16)
            /\ Occ(Inline(r), VarA) = 16
            /\ NumCalls(Inline(r)) = 15

C10_Witness ==
  /\ last.op = "WithReturn"
  /\ last.ok
  /\ intact[WithLL]
  /\ IsDocExample(hist[WithLL], last.expr)
  /\ Occ(last.ret, VarA) = 2

\* C11: when f fails, With fails with it: no Get is performed on the builder
\* (it is left as f left it), no expression comes back, and With is over.
C11_WithPropagatesFailure ==
  last.op = "WithThrow" =>
    /\ ~last.ok
    /\ last.ret = NoExpr
    /\ obj[WithLL] = last.pre
    /\ wpc = "idle"

C11_Witness ==
  /\ last.op = "WithThrow"
  /\ Len(hist[WithLL]) = 2
  /\ ~obj[WithLL].used_

\* The name of a variable, the hint it is built on, the part of it that is
\* unique, and the declared type.
NameOf(v) == v[2].name
HintOf(v) == v[2].name[1]
IdOf(v) == v[2].name[2]
TypeOf(v) == v[2].type_annotation

\* C12: the name of a variable an anonymous Push synthesizes differs from the
\* name of every variable the same builder synthesized before; all these
\* names are built on the same hint, "x".
C12_SynthesizedNamesDistinct ==
  \A b \in Builders : \A i, j \in DOMAIN hist[b] :
    (j < i /\ hist[b][i].anon /\ hist[b][j].anon)
      => /\ NameOf(hist[b][i].ret) # NameOf(hist[b][j].ret)
         /\ HintOf(hist[b][i].ret) = HintOf(hist[b][j].ret)

C12_Witness ==
  /\ Len(hist[WithLL]) = 3
  /\ intact[WithLL]
  /\ \A k \in 1..3 : hist[WithLL][k].anon
  /\ TypeOf(hist[WithLL][1].ret) # TypeOf(hist[WithLL][3].ret)

\* The variables that occur free in e.
RECURSIVE FreeVars(_)
FreeVars(e) ==
  IF IsLet(e) THEN FreeVars(e[3]) \cup (FreeVars(e[4]) \ {e[2]})
  ELSE IF IsCall(e) THEN FreeVars(e[3][1]) \cup FreeVars(e[3][2])
  ELSE IF e = NoExpr THEN {}
  ELSE {e}

\* The variables of the pushes h[1..k].
PushedVars(h, k) == {h[j].ret : j \in 1..k}

\* Every pushed expression of h refers, among the variables pushed on the
\* builder, only to those pushed before it.
RefersBackOnly(h) ==
  \A k \in DOMAIN h :
    FreeVars(h[k].expr) \cap PushedVars(h, Len(h)) \subseteq PushedVars(h, k - 1)

\* C13: when every pushed expression refers only to variables pushed earlier
\* on the builder or to variables that are never pushed on it, the expression
\* Get returns has no free occurrence of a pushed variable: in the value of
\* the K-th let, and in the body, every reference to a pushed variable is to
\* one bound by a let further out.
C13_WellScopedOutput ==
  (Finalized /\ RefersBackOnly(hist[last.b])) =>
    LET h == hist[last.b]
        N == Len(h)
    IN /\ FreeVars(last.ret) \cap PushedVars(h, N) = {}
       /\ \A k \in 1..N :
            LET c == Cont(last.ret, k - 1)
            IN IsLet(c) /\
               FreeVars(c[3]) \cap PushedVars(h, N)
                 \subseteq {Cont(last.ret, j - 1)[2] : j \in 1..(k - 1)}
       /\ FreeVars(Cont(last.ret, N)) \cap PushedVars(h, N)
            \subseteq {Cont(last.ret, j - 1)[2] : j \in 1..N}

C13_Witness ==
  /\ Finalized
  /\ RefersBackOnly(hist[last.b])
  /\ Len(hist[last.b]) = 3
  /\ \A k \in 2..3 : hist[last.b][k - 1].ret \in FreeVars(hist[last.b][k].expr)
  /\ hist[last.b][3].ret \in FreeVars(last.expr)

\* The hypothesis of C13 is not idle: pushes that refer forward are made too,
\* and leave a pushed variable free in what Get returns.
C13_ForwardReferenceSeen ==
  /\ Finalized
  /\ ~RefersBackOnly(hist[last.b])
  /\ FreeVars(last.ret) \cap PushedVars(hist[last.b], Len(hist[last.b])) # {}

\* How many bindings of lets bind variable v.
BindingsOf(lets, v) == Cardinality({k \in DOMAIN lets : lets[k][1] = v})

\* How many lets of the chain e bind variable v.
RECURSIVE LetsOf(_, _)
LetsOf(e, v) ==
  IF IsLet(e) THEN (IF e[2] = v THEN 1 ELSE 0) + LetsOf(e[4], v) ELSE 0

\* C14: Push(v, e) on an open builder returns even when lets_ already binds v
\* (whoever bound it), and lets_ then holds one more binding of v; Get turns
\* every one of these bindings into a let of its own.
C14_NoCollisionCheck ==
  /\ (last.op = "PushVar" /\ ~last.pre.used_)
       => /\ last.ok
          /\ BindingsOf(obj[last.b].lets_, last.var)
               = BindingsOf(last.pre.lets_, last.var) + 1
          /\ obj[last.b].lets_[Len(obj[last.b].lets_)] = <<last.var, last.expr>>
  /\ Finalized =>
       \A k \in DOMAIN hist[last.b] :
         LetsOf(last.ret, hist[last.b][k].ret)
           = Cardinality({j \in DOMAIN hist[last.b] :
                            hist[last.b][j].ret = hist[last.b][k].ret})

C14_Witness ==
  /\ Finalized
  /\ Len(hist[last.b]) = 3
  /\ hist[last.b][1].anon
  /\ ~hist[last.b][2].anon
  /\ hist[last.b][1].ret = hist[last.b][2].ret
  /\ LetsOf(last.ret, hist[last.b][1].ret) = 2

\* The caller kept its part: every variable it passed to Push(Var, Expr)
\* differed from all variables the builder had bound by then.
CallerVarsFresh(h) ==
  \A k \in DOMAIN h :
    ~h[k].anon => \A j \in 1..(k - 1) : h[j].ret # h[k].ret

\* C15: as long as the caller passes no variable that is already bound, the
\* variables of lets_ are pairwise distinct, however explicit and anonymous
\* pushes alternate.
C15_BindingVarsDistinct ==
  \A b \in Builders :
    CallerVarsFresh(hist[b]) =>
      \A i, j \in DOMAIN obj[b].lets_ :
        i # j => obj[b].lets_[i][1] # obj[b].lets_[j][1]

C15_Witness ==
  /\ Len(obj[Client].lets_) = 3
  /\ CallerVarsFresh(hist[Client])
  /\ hist[Client][1].anon
  /\ ~hist[Client][2].anon
  /\ hist[Client][3].anon

\* C16: a Push or Get on one builder, whether it returns or throws, leaves
\* lets_ and used_ of every other builder as they were; and a Push or Get on
\* an open builder returns, closed or not the other builder may be.
C16_BuildersIndependent ==
  /\ [][\A b \in Builders :
          (last'.op \in PushOps \cup {"Get"} /\ b # last'.b) => obj'[b] = obj[b]]_vars
  /\ []((last.op \in PushOps \cup {"Get"} /\ ~last.pre.used_) => last.ok)

C16_Witness ==
  /\ wpc = "idle"
  /\ last.op \in PushOps
  /\ last.ok
  /\ last.b = WithLL
  /\ Len(obj[WithLL].lets_) = 2
  /\ obj[Client].used_
  /\ Len(obj[Client].lets_) = 1

\* C17: Push(e) does what Push(Type(), e) does on the same object with the
\* same new node: one binding of e to a new variable without a declared type
\* is appended; Push(ty, e) appends a binding of e to a new variable whose
\* declared type is ty; in both, the variable handed back is the one stored.
C17_UntypedIsTypedWithAbsentType ==
  (last.op \in {"PushExpr", "PushTy"} /\ last.ok) =>
    LET lets == obj[last.b].lets_
    IN /\ lets = Append(last.pre.lets_, <<last.ret, last.expr>>)
       /\ TypeOf(last.ret) = last.ty
       /\ HintOf(last.ret) = "x"
       /\ \A k \in DOMAIN last.pre.lets_ : last.pre.lets_[k][1] # last.ret
       /\ last.op = "PushExpr" =>
            /\ TypeOf(last.ret) = NoType
            /\ LET t == PushTy(last.pre, NoType, last.expr, IdOf(last.ret))
               IN t.ok /\ t.ret = last.ret /\ t.ll = obj[last.b]

C17_Witness ==
  /\ last.op = "PushExpr"
  /\ last.ok
  /\ Len(last.pre.lets_) = 2
  /\ TypeOf(last.pre.lets_[1][1]) = "TensorType"
  /\ TypeOf(last.pre.lets_[2][1]) = NoType
  /\ hist[last.b][2].anon

\* C18: when f has called Get on the builder it was handed and then returns,
\* the Get of With throws: With returns no expression, and the one Get that
\* returned on the builder is f's.
C18_WithAfterInnerGetFails ==
  (last.op = "WithReturn"
     /\ closes[WithLL] - (IF last.ok THEN 1 ELSE 0) >= 1) =>
    /\ ~last.ok
    /\ last.ret = NoExpr
    /\ closes[WithLL] = 1
    /\ obj[WithLL] = last.pre

C18_Witness ==
  /\ last.op = "WithReturn"
  /\ last.pre.used_
  /\ intact[WithLL]
  /\ ~last.ok
  /\ Len(hist[WithLL]) = 2

\* C19: a Get that returns sets used_ and nothing else: lets_ is afterwards
\* what it was before, and body sits unchanged below the lets of the result.
C19_GetChangesOnlyFlag ==
  Finalized =>
    /\ obj[last.b].lets_ = last.pre.lets_
    /\ ~last.pre.used_
    /\ obj[last.b] = [last.pre EXCEPT !.used_ = TRUE]
    /\ Cont(last.ret, Len(last.pre.lets_)) = last.expr
    /\ Len(hist[last.b]) = Len(obj[last.b].lets_)

C19_Witness ==
  /\ last.op = "Get"
  /\ last.ok
  /\ last.b = Client
  /\ Len(obj[Client].lets_) = 3
  /\ obj[Client].lets_[1][1] = obj[Client].lets_[2][1]

====
